---- MODULE Spec2Model ----
(***************************************************************************)
(* Model of the Dynamic Vi agent of Ai-Clinic: the LangGraph turn graph    *)
(* (medical_assistant_agent/result.py, agents.py), the persistence of a    *)
(* conversation between turns, and the /chat endpoint (routers/medical.py).*)
(* The LLM is an oracle: every reply it can give is a nondeterministic     *)
(* choice.  Floats are scaled by ten (0.6 is 6).                           *)
(* The services (services/completeness_manager.py, conversation_memory.py) *)
(* are modelled one call at a time in specifications of their own.         *)
(***************************************************************************)
EXTENDS Integers, Sequences, FiniteSets, TLC

VARIABLES
    db,        \* conversations table: session_id -> stored Conversation row
    rows,      \* messages table: session_id -> sequence of Message rows
    pc,        \* position of the request handler: "idle", "graph", "router"
    request,   \* the ChatRequest being served
    state,     \* the ViState of the running turn
    node,      \* the graph node about to run, or END
    steps,     \* supersteps the running graph has executed (0 once it has reached END)
    lastRun,   \* the node that ran last in this turn; for an evaluation, whether its
               \* reply was read and the should_complete it reported
    obs,       \* what has happened in this turn (history of the turn)
    prevEnd,   \* the final state of the previous turn
    db0,       \* the conversations table when the turn started
    response,  \* the last response returned
    turns,     \* process_message calls started so far
    probe,     \* the LLM reply an orchestrator step was given (SpecOrchestrator)
    call,      \* the arguments of the service call made last
    result,    \* what the service call made last returned, or the exception it raised
    tracking,  \* question_tracking table: sequence of QuestionTracking rows
    calls      \* the process_message calls in progress side by side (SpecOverlap)

\* The state of the services and of the side-by-side calls
svc == <<call, result, tracking, calls>>

vars == <<db, rows, pc, request, state, node, steps, lastRun, obs,
          prevEnd, db0, response, turns, probe, svc>>

----------------------------------------------------------------------------
(* Bounds and program constants *)

MaxTurns == 1

RecursionLimit == 25

AutoCompleteMessages == 50

AutoCompleteReadiness == 6

\* A prior conversation two messages short of the auto-completion threshold
StoredMessages == AutoCompleteMessages - 2

----------------------------------------------------------------------------
(* AgentStep and the values of the Python state *)

ORCHESTRATOR == "orchestrator"
GREETING_AGENT == "greeting_agent"
EXTRACTION_AGENT == "extraction_agent"
EVALUATION_AGENT == "evaluation_agent"
QUESTION_AGENT == "question_agent"
COMPLETION_AGENT == "completion_agent"
EMERGENCY_AGENT == "emergency_agent"
END == "END"

AgentStep == {ORCHESTRATOR, GREETING_AGENT, EXTRACTION_AGENT, EVALUATION_AGENT,
              QUESTION_AGENT, COMPLETION_AGENT, EMERGENCY_AGENT}

\* Python None, a key absent from the LLM's JSON, a JSON value that is no string
NoneVal == "<None>"
Absent == "<absent>"
NonString == "<non-string>"

EmptyDict == [k \in {} |-> ""]

DictSet(d, k, v) == [x \in (DOMAIN d) \cup {k} |-> IF x = k THEN v ELSE d[x]]

HumanMessage(c) == [cls |-> "HumanMessage", content |-> c]
AIMessage(c) == [cls |-> "AIMessage", content |-> c]

CountCls(msgs, c) == Len(SelectSeq(msgs, LAMBDA m : m.cls = c))

HelloFallback == "Hello! I'm Vi"

ApologyText == "I apologize"

----------------------------------------------------------------------------
(* The LLM's replies.  kind is "ok" (the reply was read: JSON parsed, or    *)
(* plain text), "unparsable" (json.loads or the first .get raises) or       *)
(* "llm_error" (llm.invoke raises).                                         *)

NoReply ==
    [kind |-> "none", next_agent |-> "-", priority_field |-> "-",
     target_field |-> "-", extracted_value |-> "-", additional_data |-> EmptyDict,
     completion_readiness |-> 0, should_complete |-> FALSE,
     emergency_detected |-> FALSE, emergency_level |-> "-",
     next_field_to_collect |-> "-", content |-> "-"]

LlmError == [NoReply EXCEPT !.kind = "llm_error"]
Unparsable == [NoReply EXCEPT !.kind = "unparsable"]

LowerNames == {GREETING_AGENT, EXTRACTION_AGENT, EVALUATION_AGENT, QUESTION_AGENT,
               COMPLETION_AGENT, EMERGENCY_AGENT, "end"}
UpperNames == {"GREETING_AGENT", "EXTRACTION_AGENT", "EVALUATION_AGENT",
               "QUESTION_AGENT", "COMPLETION_AGENT", "EMERGENCY_AGENT", "END"}
UnknownNames == {"Question_Agent", ORCHESTRATOR}

OrchestratorReplies ==
    {LlmError, Unparsable} \cup
    {[NoReply EXCEPT !.kind = "ok", !.next_agent = a, !.priority_field = Absent] :
        a \in LowerNames \cup UpperNames \cup UnknownNames \cup {Absent}}

TextReplies(c) == {LlmError, [NoReply EXCEPT !.kind = "ok", !.content = c]}

ExtractionReplies ==
    {LlmError, Unparsable} \cup
    {[NoReply EXCEPT !.kind = "ok", !.target_field = "age", !.extracted_value = "v2"],
     [NoReply EXCEPT !.kind = "ok", !.target_field = "age",
                     !.extracted_value = "unclear_response"],
     [NoReply EXCEPT !.kind = "ok", !.target_field = Absent, !.extracted_value = "v2",
                     !.additional_data = [k \in {"age", "onset"} |-> "w"]]}

EvaluationReplies ==
    {LlmError, Unparsable,
     [NoReply EXCEPT !.kind = "ok", !.completion_readiness = AutoCompleteReadiness,
                     !.should_complete = TRUE, !.emergency_level = Absent,
                     !.next_field_to_collect = NoneVal]} \cup
    {[NoReply EXCEPT !.kind = "ok", !.completion_readiness = cr,
                     !.should_complete = sc, !.emergency_detected = e[1],
                     !.emergency_level = e[2], !.next_field_to_collect = nf] :
        cr \in {AutoCompleteReadiness - 1, AutoCompleteReadiness},
        sc \in BOOLEAN,
        e \in {<<FALSE, Absent>>, <<TRUE, "high">>, <<TRUE, NonString>>},
        nf \in {Absent}}

Replies(agent) ==
    CASE agent = ORCHESTRATOR -> OrchestratorReplies
      [] agent = GREETING_AGENT -> TextReplies("greeting")
      [] agent = EXTRACTION_AGENT -> ExtractionReplies
      [] agent = EVALUATION_AGENT -> EvaluationReplies
      [] agent = QUESTION_AGENT -> TextReplies("question")
      [] agent = COMPLETION_AGENT -> TextReplies("summary")
      [] agent = EMERGENCY_AGENT -> TextReplies("emergency")
      [] OTHER -> {NoReply}

----------------------------------------------------------------------------
(* agents.py: process_agent_response, one operator per branch *)

\* NormalizeAgentName without the final else: an unrecognised name is kept
NormalizeAgentName_NoFallback(next_agent) ==
    CASE next_agent \in {"GREETING_AGENT", "greeting_agent"} -> GREETING_AGENT
      [] next_agent \in {"EXTRACTION_AGENT", "extraction_agent"} -> EXTRACTION_AGENT
      [] next_agent \in {"EVALUATION_AGENT", "evaluation_agent"} -> EVALUATION_AGENT
      [] next_agent \in {"QUESTION_AGENT", "question_agent"} -> QUESTION_AGENT
      [] next_agent \in {"COMPLETION_AGENT", "completion_agent"} -> COMPLETION_AGENT
      [] next_agent \in {"EMERGENCY_AGENT", "emergency_agent"} -> EMERGENCY_AGENT
      [] next_agent \in {"END", "end"} -> END
      [] OTHER -> next_agent

\* agents.py 255-274
NormalizeAgentName(next_agent) ==
    CASE next_agent \in {"GREETING_AGENT", "greeting_agent"} -> GREETING_AGENT
      [] next_agent \in {"EXTRACTION_AGENT", "extraction_agent"} -> EXTRACTION_AGENT
      [] next_agent \in {"EVALUATION_AGENT", "evaluation_agent"} -> EVALUATION_AGENT
      [] next_agent \in {"QUESTION_AGENT", "question_agent"} -> QUESTION_AGENT
      [] next_agent \in {"COMPLETION_AGENT", "completion_agent"} -> COMPLETION_AGENT
      [] next_agent \in {"EMERGENCY_AGENT", "emergency_agent"} -> EMERGENCY_AGENT
      [] next_agent \in {"END", "end"} -> END
      [] OTHER -> GREETING_AGENT

\* agents.py 247-289
ProcessOrchestrator(s, r) ==
    IF r.kind = "ok"
    THEN [s EXCEPT
            !.next_step = NormalizeAgentName(
                IF r.next_agent = Absent THEN "greeting_agent" ELSE r.next_agent),
            !.current_field = IF r.priority_field = Absent THEN @ ELSE r.priority_field]
    ELSE [s EXCEPT !.next_step = GREETING_AGENT]

\* agents.py 291-296
ProcessGreeting(s, r) ==
    [s EXCEPT !.messages = Append(@, AIMessage(r.content)),
              !.ai_context.last_agent_action = "greeting_sent"]

\* agents.py 298-347
ProcessExtraction(s, r) ==
    IF r.kind = "ok"
    THEN LET key == IF r.target_field = Absent THEN NoneVal ELSE r.target_field
             clear == r.extracted_value \notin {"unclear_response", "skipped_by_user"}
             f1 == IF clear THEN DictSet(s.collected_fields, key, r.extracted_value)
                   ELSE s.collected_fields
             ad == r.additional_data
             extra == {k \in DOMAIN ad : ad[k] # "" /\ k \notin DOMAIN f1}
             f2 == [k \in (DOMAIN f1) \cup extra |-> IF k \in DOMAIN f1 THEN f1[k] ELSE ad[k]]
         IN [s EXCEPT !.collected_fields = f2,
                      !.ai_context.last_agent_action = "extraction_complete",
                      !.next_step = ORCHESTRATOR]
    ELSE [s EXCEPT !.ai_context.last_agent_action = "extraction_error",
                   !.next_step = ORCHESTRATOR]

\* EvaluationAssign with the message threshold compared by > instead of >=
EvaluationAssign_StrictThreshold(s, r) ==
    LET s1 == [s EXCEPT !.completion_readiness = r.completion_readiness,
                        !.current_field = IF r.next_field_to_collect = Absent THEN "age"
                                          ELSE r.next_field_to_collect,
                        !.conversation_complete = r.should_complete]
    IN IF Len(s1.messages) > AutoCompleteMessages
          /\ s1.completion_readiness >= AutoCompleteReadiness
       THEN [s1 EXCEPT !.conversation_complete = TRUE,
                       !.ai_context.auto_completion_reason = TRUE]
       ELSE s1

\* agents.py 356-368: the evaluation's assignments and the auto-completion override
EvaluationAssign(s, r) ==
    LET s1 == [s EXCEPT !.completion_readiness = r.completion_readiness,
                        !.current_field = IF r.next_field_to_collect = Absent THEN "age"
                                          ELSE r.next_field_to_collect,
                        !.conversation_complete = r.should_complete]
    IN IF Len(s1.messages) >= AutoCompleteMessages
          /\ s1.completion_readiness >= AutoCompleteReadiness
       THEN [s1 EXCEPT !.conversation_complete = TRUE,
                       !.ai_context.auto_completion_reason = TRUE]
       ELSE s1

\* agents.py 349-392
ProcessEvaluation(s, r) ==
    IF r.kind = "ok"
    THEN LET s2 == EvaluationAssign(s, r)
         IN IF r.emergency_detected
            THEN IF r.emergency_level = NonString
                 THEN \* .upper() raises: the except branch, after the assignments
                      [s2 EXCEPT !.ai_context.last_agent_action = "evaluation_error",
                                 !.next_step = ORCHESTRATOR]
                 ELSE [s2 EXCEPT
                         !.emergency_level = IF r.emergency_level = Absent THEN "MODERATE"
                                             ELSE "HIGH",
                         !.next_step = EMERGENCY_AGENT,
                         !.ai_context.last_agent_action = "emergency_detected"]
            ELSE IF s2.conversation_complete
                 THEN [s2 EXCEPT !.next_step = COMPLETION_AGENT,
                                 !.ai_context.last_agent_action = "ready_for_completion"]
                 ELSE [s2 EXCEPT !.next_step = QUESTION_AGENT,
                                 !.ai_context.last_agent_action =
                                     "evaluation_complete_need_question"]
    ELSE [s EXCEPT !.ai_context.last_agent_action = "evaluation_error",
                   !.next_step = ORCHESTRATOR]

\* agents.py 394-399
ProcessQuestion(s, r) ==
    [s EXCEPT !.messages = Append(@, AIMessage(r.content)),
              !.ai_context.last_agent_action = "question_asked",
              !.next_step = ORCHESTRATOR]

\* agents.py 401-413
ProcessCompletion(s, r) ==
    [s EXCEPT !.messages = Append(@, AIMessage(r.content)),
              !.conversation_complete = TRUE]

\* agents.py 415-419
ProcessEmergency(s, r) ==
    [s EXCEPT !.messages = Append(@, AIMessage(r.content)),
              !.conversation_complete = TRUE]

\* agents.py 244-421
process_agent_response(s, agent, r) ==
    CASE agent = ORCHESTRATOR -> ProcessOrchestrator(s, r)
      [] agent = GREETING_AGENT -> ProcessGreeting(s, r)
      [] agent = EXTRACTION_AGENT -> ProcessExtraction(s, r)
      [] agent = EVALUATION_AGENT -> ProcessEvaluation(s, r)
      [] agent = QUESTION_AGENT -> ProcessQuestion(s, r)
      [] agent = COMPLETION_AGENT -> ProcessCompletion(s, r)
      [] agent = EMERGENCY_AGENT -> ProcessEmergency(s, r)
      [] OTHER -> s

\* handle_agent_error with the orchestrator's branch lost: every agent falls back
\* to the orchestrator
handle_agent_error_NoGreetingFallback(s, agent) ==
    IF agent = GREETING_AGENT
    THEN [s EXCEPT !.messages = Append(@, AIMessage(HelloFallback)),
                   !.next_step = ORCHESTRATOR]
    ELSE [s EXCEPT !.next_step = ORCHESTRATOR]

\* agents.py 490-503
handle_agent_error(s, agent) ==
    IF agent = ORCHESTRATOR
    THEN [s EXCEPT !.next_step = GREETING_AGENT]
    ELSE IF agent = GREETING_AGENT
         THEN [s EXCEPT !.messages = Append(@, AIMessage(HelloFallback)),
                        !.next_step = ORCHESTRATOR]
         ELSE [s EXCEPT !.next_step = ORCHESTRATOR]

\* agents.py 33-69: the agent that runs is the one next_step names
run_ai_agent(s, r) ==
    IF s.next_step \notin AgentStep
    THEN s
    ELSE IF r.kind = "llm_error"
         THEN handle_agent_error(s, s.next_step)
         ELSE process_agent_response(s, s.next_step, r)

----------------------------------------------------------------------------
(* Routing: agents.py route_to_agent, route_from_evaluation; result.py edges *)

\* agents.py 423-463
route_to_agent(s) ==
    LET ai == CountCls(s.messages, "AIMessage")
        user == CountCls(s.messages, "HumanMessage")
    IN IF ai = 0 /\ user = 0 /\ s.next_step = GREETING_AGENT THEN s.next_step
       ELSE IF ai > user THEN END
       ELSE IF s.next_step \in {EXTRACTION_AGENT, EVALUATION_AGENT} THEN s.next_step
       ELSE IF s.ai_context.last_agent_action = "question_asked" /\ ai >= user THEN END
       ELSE s.next_step

\* agents.py 465-473
route_from_evaluation(s) ==
    IF s.conversation_complete THEN END ELSE s.next_step

\* result.py 57-69: the orchestrator's conditional edge map
OrchestratorEdges ==
    [k \in {GREETING_AGENT, EXTRACTION_AGENT, EVALUATION_AGENT, QUESTION_AGENT,
            COMPLETION_AGENT, EMERGENCY_AGENT, END} |-> k]

\* result.py 79-89: the evaluation agent's conditional edge map
EvaluationEdges ==
    [k \in {QUESTION_AGENT, COMPLETION_AGENT, EMERGENCY_AGENT, ORCHESTRATOR, END} |-> k]

\* result.py 45-95: the node that follows node n in state s; "error" when the
\* routing function returns a value that is no key of the node's edge map
NextNode(n, s) ==
    CASE n = ORCHESTRATOR ->
            LET v == route_to_agent(s)
            IN IF v \in DOMAIN OrchestratorEdges THEN OrchestratorEdges[v] ELSE "error"
      [] n = EVALUATION_AGENT ->
            LET v == route_from_evaluation(s)
            IN IF v \in DOMAIN EvaluationEdges THEN EvaluationEdges[v] ELSE "error"
      [] n \in {EXTRACTION_AGENT, QUESTION_AGENT} -> ORCHESTRATOR
      [] OTHER -> END

----------------------------------------------------------------------------
(* The store: Conversation rows (config/models.py) and their JSON columns *)

\* Conversation.variables as process_message writes it (result.py 272-277):
\* has_ai_context: the key "ai_context" is present; nested: the stored
\* ai_context itself holds an "ai_context" key
EmptyVariables ==
    [has_ai_context |-> FALSE, nested |-> FALSE, conversation_messages |-> <<>>,
     completion_readiness |-> 0, total_fields_collected |-> 0, current_field |-> Absent]

\* result.py 185-193
NewConversation ==
    [status |-> "ACTIVE", collected_data |-> EmptyDict, completed_at |-> FALSE,
     variables |-> EmptyVariables]

\* A JSON column stores object keys as strings: json.dumps writes the key None as "null"
JsonKey(k) == IF k = NoneVal THEN "null" ELSE k

JsonDict(d) ==
    [k \in {JsonKey(x) : x \in DOMAIN d} |->
        IF k = "null" /\ NoneVal \in DOMAIN d THEN d[NoneVal] ELSE d[k]]

\* result.py 240-245
messages_to_save(msgs) ==
    LET kept == SelectSeq(msgs, LAMBDA m : m.cls \in {"HumanMessage", "AIMessage"})
    IN [i \in 1..Len(kept) |->
          [type |-> IF kept[i].cls = "HumanMessage" THEN "human" ELSE "ai",
           content |-> kept[i].content]]

\* result.py 160-166
LoadMessages(saved) ==
    LET kept == SelectSeq(saved, LAMBDA m : m.type \in {"human", "ai"})
    IN [i \in 1..Len(kept) |->
          IF kept[i].type = "human" THEN HumanMessage(kept[i].content)
          ELSE AIMessage(kept[i].content)]

\* The ai_context of a ViState: whether it holds the key "ai_context", its
\* last_agent_action ("none" when the key is missing) and whether it holds
\* auto_completion_reason.  The keys only the LLM prompt reads are left out.
EmptyContext ==
    [has_ai_context |-> FALSE, last_agent_action |-> "none",
     auto_completion_reason |-> FALSE]

\* result.py 131-181: the collected fields, ai_context (the whole variables
\* column) and messages of a stored conversation; all empty when none is found
LoadState(store, sid) ==
    IF sid \in DOMAIN store
    THEN [found |-> TRUE,
          collected_fields |-> store[sid].collected_data,
          ai_context |-> [EmptyContext EXCEPT
                            !.has_ai_context = store[sid].variables.has_ai_context],
          messages |-> IF store[sid].variables.has_ai_context
                       THEN LoadMessages(store[sid].variables.conversation_messages)
                       ELSE <<>>]
    ELSE [found |-> FALSE, collected_fields |-> EmptyDict,
          ai_context |-> EmptyContext, messages |-> <<>>]

\* result.py 200-219
InitialState(sid, message, ld) ==
    [messages |-> IF message # "" THEN Append(ld.messages, HumanMessage(message))
                  ELSE ld.messages,
     session_id |-> sid,
     conversation_complete |-> FALSE,
     collected_fields |-> ld.collected_fields,
     current_field |-> "age",
     next_step |-> ORCHESTRATOR,
     ai_context |-> ld.ai_context,
     emergency_level |-> "NONE",
     completion_readiness |-> 0]

\* result.py 261-277: the row process_message writes for an unfinished turn
SavedConversation(conv, s) ==
    [conv EXCEPT
        !.collected_data = JsonDict(s.collected_fields),
        !.variables = [has_ai_context |-> TRUE,
                       nested |-> s.ai_context.has_ai_context,
                       conversation_messages |-> messages_to_save(s.messages),
                       completion_readiness |-> s.completion_readiness,
                       total_fields_collected |-> Cardinality(DOMAIN s.collected_fields),
                       current_field |-> s.current_field]]

\* result.py 230-304: the conversations table after the save step
SaveState(store, s) ==
    IF ~s.conversation_complete /\ s.session_id \in DOMAIN store
    THEN [store EXCEPT ![s.session_id] = SavedConversation(@, s)]
    ELSE store

InvalidValues == {"unclear_response", "skipped_by_user", "unclear", "skipped"}

\* result.py 306-312
LastAIMessage(msgs) ==
    LET ai == {i \in 1..Len(msgs) : msgs[i].cls = "AIMessage"}
    IN IF ai = {} THEN ""
       ELSE msgs[CHOOSE i \in ai : \A j \in ai : j <= i].content

\* result.py 320-332, over the fields the model collects
NextField(s) ==
    IF s.current_field # NoneVal THEN s.current_field
    ELSE IF "age" \notin DOMAIN s.collected_fields
            \/ s.collected_fields["age"] \in InvalidValues
         THEN "age" ELSE "biological_sex"

\* result.py 335-346
Result(s) ==
    [session_id |-> s.session_id,
     message |-> LastAIMessage(s.messages),
     collected_data |-> s.collected_fields,
     conversation_complete |-> s.conversation_complete,
     next_field |-> NextField(s),
     fields_collected |-> Cardinality({k \in DOMAIN s.collected_fields :
                                          s.collected_fields[k] \notin InvalidValues}),
     emergency_level |-> s.emergency_level,
     completion_readiness |-> s.completion_readiness,
     error |-> "",
     conversation_history |-> <<>>, total_messages |-> 0, http |-> 0]

\* result.py 348-365
Apology(sid, e) ==
    [session_id |-> sid,
     message |-> ApologyText,
     collected_data |-> EmptyDict,
     conversation_complete |-> FALSE,
     next_field |-> "age",
     fields_collected |-> 0,
     emergency_level |-> "NONE",
     completion_readiness |-> 0,
     error |-> e,
     conversation_history |-> <<>>, total_messages |-> 0, http |-> 0]

----------------------------------------------------------------------------
(* Initial states *)

UserMessages == {"", "hi"}

\* A session id the client sends for which no conversation was ever created
GhostSession == "ghost"

SessionNames == <<"s1", "s2", "s3", "s4">>

\* result.py 184: a fresh id
NewSessionId(store) ==
    SessionNames[CHOOSE i \in 1..Len(SessionNames) :
                    /\ SessionNames[i] \notin DOMAIN store
                    /\ \A j \in 1..(i - 1) : SessionNames[j] \in DOMAIN store]

\* A conversation already in the store: StoredMessages / 2 earlier turns, each
\* a user message answered by one question
StoredHistory ==
    [i \in 1..StoredMessages |->
        IF i % 2 = 1 THEN [type |-> "human", content |-> "hi"]
        ELSE [type |-> "ai", content |-> "question"]]

StoredRows ==
    [i \in 1..StoredMessages |->
        IF i % 2 = 1 THEN [role |-> "user", content |-> "hi"]
        ELSE [role |-> "assistant", content |-> "question"]]

StoredConversation ==
    [status |-> "ACTIVE", collected_data |-> [k \in {"age"} |-> "v"],
     completed_at |-> FALSE,
     variables |-> [has_ai_context |-> TRUE, nested |-> TRUE,
                    conversation_messages |-> StoredHistory,
                    completion_readiness |-> AutoCompleteReadiness - 1,
                    total_fields_collected |-> 1, current_field |-> "age"]]

NoRun == [node |-> "none", agent |-> "none", read |-> FALSE, should_complete |-> FALSE]
NoObs == [eval_emergency |-> FALSE, eval_complete |-> FALSE, eval_auto |-> FALSE,
          emergency_ran |-> FALSE, completion_ran |-> FALSE,
          question_asked |-> FALSE, after_question |-> FALSE]
NoLoad == [found |-> FALSE, collected_fields |-> EmptyDict,
           ai_context |-> EmptyContext, messages |-> <<>>]
NoEnd == [valid |-> FALSE, session_id |-> "", messages |-> <<>>,
          collected_fields |-> EmptyDict, conversation_complete |-> FALSE]
NoRequest == [session_id |-> "", message |-> ""]
NoResponse == [Apology("", "") EXCEPT !.message = ""]
NoCall == [op |-> "none"]
NoResult == [status |-> "none"]

\* No service has been called and no process_message call runs beside the turn
ServicesIdle ==
    /\ call = NoCall
    /\ result = NoResult
    /\ tracking = <<>>
    /\ calls = <<>>

Init ==
    /\ db = [s \in {"s0"} |-> StoredConversation]
    /\ rows = [s \in {"s0"} |-> StoredRows]
    /\ pc = "idle"
    /\ request = NoRequest
    /\ state = InitialState("", "", NoLoad)
    /\ node = END
    /\ steps = 0
    /\ lastRun = NoRun
    /\ obs = NoObs
    /\ prevEnd = NoEnd
    /\ db0 = db
    /\ response = NoResponse
    /\ turns = 0
    /\ probe = NoReply
    /\ ServicesIdle

----------------------------------------------------------------------------
(* process_message, first part (result.py 127-219): load or create the      *)
(* conversation and build the initial state.  A database call may raise.    *)

StartTurn(sid, message, ld) ==
    /\ state' = InitialState(sid, message, ld)
    /\ node' = ORCHESTRATOR
    /\ pc' = "graph"
    /\ UNCHANGED response

\* The variables of the graph run are dead once process_message returns
GraphDone ==
    /\ state' = InitialState("", "", NoLoad)
    /\ node' = END
    /\ steps' = 0
    /\ lastRun' = NoRun

FailTurn(sid, e) ==
    /\ response' = Apology(sid, e)
    /\ prevEnd' = NoEnd
    /\ pc' = "router"

BeginTurn(sid, message) ==
    /\ pc = "idle"
    /\ turns < MaxTurns
    /\ turns' = turns + 1
    /\ request' = [session_id |-> sid, message |-> message]
    /\ db0' = db
    /\ steps' = 0
    /\ lastRun' = NoRun
    /\ obs' = NoObs
    /\ UNCHANGED <<probe, svc>>

\* result.py 131-181: an existing (or unknown) session
LoadConversation ==
    \E sid \in (DOMAIN db) \cup {GhostSession}, message \in UserMessages :
        /\ BeginTurn(sid, message)
        /\ StartTurn(sid, message, LoadState(db, sid))
        /\ UNCHANGED <<db, rows, prevEnd>>

\* result.py 182-198: no session id, a conversation is created
CreateConversation ==
    \E message \in UserMessages :
        /\ BeginTurn("", message)
        /\ db' = DictSet(db, NewSessionId(db), NewConversation)
        /\ rows' = DictSet(rows, NewSessionId(db), <<>>)
        /\ StartTurn(NewSessionId(db), message, NoLoad)
        /\ UNCHANGED prevEnd

\* result.py 134-139, 195: the commit, query or refresh raises
LoadFails ==
    \E sid \in (DOMAIN db) \cup {GhostSession, ""}, message \in UserMessages :
        /\ BeginTurn(sid, message)
        /\ FailTurn(IF sid = "" THEN NewSessionId(db) ELSE sid, "database error")
        /\ UNCHANGED <<db, rows, state, node>>

----------------------------------------------------------------------------
(* graph.invoke (result.py 222): one action per node of the graph.  A step  *)
(* is run_ai_agent followed by the node's edge.                             *)

ObsAfter(a, r, s2) ==
    [eval_emergency |-> obs.eval_emergency
        \/ (a = EVALUATION_AGENT /\ r.kind = "ok" /\ r.emergency_detected),
     eval_complete |-> obs.eval_complete
        \/ (a = EVALUATION_AGENT /\ s2.conversation_complete
            /\ ~(r.kind = "ok" /\ r.emergency_detected)),
     eval_auto |-> obs.eval_auto
        \/ (a = EVALUATION_AGENT /\ r.kind = "ok"
            /\ Len(s2.messages) >= AutoCompleteMessages
            /\ r.completion_readiness >= AutoCompleteReadiness),
     emergency_ran |-> obs.emergency_ran \/ (a = EMERGENCY_AGENT /\ r.kind = "ok"),
     completion_ran |-> obs.completion_ran \/ (a = COMPLETION_AGENT /\ r.kind = "ok"),
     question_asked |-> obs.question_asked \/ (a = QUESTION_AGENT /\ r.kind = "ok"),
     after_question |-> obs.after_question
        \/ (obs.question_asked
            /\ a \in {EXTRACTION_AGENT, EVALUATION_AGENT, QUESTION_AGENT,
                      COMPLETION_AGENT, EMERGENCY_AGENT})]

RunNode(n) ==
    /\ pc = "graph"
    /\ steps < RecursionLimit
    /\ \E r \in Replies(state.next_step) :
        LET s2 == run_ai_agent(state, r)
            n2 == NextNode(n, s2)
        IN /\ obs' = ObsAfter(state.next_step, r, s2)
           /\ IF n2 = "error"
              THEN \* the graph raises: process_message's except branch
                   /\ FailTurn(s2.session_id, "invalid route")
                   /\ GraphDone
              ELSE /\ lastRun' = [node |-> n, agent |-> state.next_step,
                                  read |-> n = EVALUATION_AGENT /\ r.kind = "ok",
                                  should_complete |-> r.should_complete]
                   /\ state' = s2
                   /\ steps' = IF n2 = END THEN 0 ELSE steps + 1
                   /\ node' = n2
                   /\ UNCHANGED <<pc, response, prevEnd>>
    /\ UNCHANGED <<db, rows, request, db0, turns, probe, svc>>

RunOrchestrator == node = ORCHESTRATOR /\ RunNode(ORCHESTRATOR)
RunGreeting == node = GREETING_AGENT /\ RunNode(GREETING_AGENT)
RunExtraction == node = EXTRACTION_AGENT /\ RunNode(EXTRACTION_AGENT)
RunEvaluation == node = EVALUATION_AGENT /\ RunNode(EVALUATION_AGENT)
RunQuestion == node = QUESTION_AGENT /\ RunNode(QUESTION_AGENT)
RunCompletion == node = COMPLETION_AGENT /\ RunNode(COMPLETION_AGENT)
RunEmergency == node = EMERGENCY_AGENT /\ RunNode(EMERGENCY_AGENT)

\* LangGraph stops a run that has not reached END within recursion_limit supersteps
GraphRecursionError ==
    /\ pc = "graph"
    /\ node # END
    /\ steps >= RecursionLimit
    /\ FailTurn(state.session_id, "GraphRecursionError")
    /\ GraphDone
    /\ UNCHANGED <<db, rows, request, obs, db0, turns, probe, svc>>

----------------------------------------------------------------------------
(* process_message, last part (result.py 230-346) *)

EndOfTurn(s) ==
    [valid |-> TRUE, session_id |-> s.session_id, messages |-> s.messages,
     collected_fields |-> s.collected_fields,
     conversation_complete |-> s.conversation_complete]

\* result.py 230-346: save the unfinished turn and build the result
SaveAndReturn ==
    /\ pc = "graph"
    /\ node = END
    /\ db' = SaveState(db, state)
    /\ response' = Result(state)
    /\ prevEnd' = EndOfTurn(state)
    /\ pc' = "router"
    /\ GraphDone
    /\ UNCHANGED <<rows, request, obs, db0, turns, probe, svc>>

\* result.py 237, 281-283: the query or the commit of the save raises
SaveFails ==
    /\ pc = "graph"
    /\ node = END
    /\ ~state.conversation_complete
    /\ FailTurn(state.session_id, "database error")
    /\ GraphDone
    /\ UNCHANGED <<db, rows, request, obs, db0, turns, probe, svc>>

\* result.py 286-288: the read-back after the commit raises
VerificationFails ==
    /\ pc = "graph"
    /\ node = END
    /\ ~state.conversation_complete
    /\ state.session_id \in DOMAIN db
    /\ db' = SaveState(db, state)
    /\ FailTurn(state.session_id, "verification error")
    /\ GraphDone
    /\ UNCHANGED <<rows, request, obs, db0, turns, probe, svc>>

----------------------------------------------------------------------------
(* The /chat endpoint after process_message (routers/medical.py 87-184) *)

\* routers/medical.py 96-114
RecordedRows(old, req, resp) ==
    IF req.message # ""
    THEN old \o <<[role |-> "user", content |-> req.message],
                  [role |-> "assistant", content |-> resp.message]>>
    ELSE old

\* routers/medical.py 87-184.  ChatResponse declares collected_data as
\* Dict[str, Any]: a key None fails its validation after the rows are committed
ChatEndpoint ==
    /\ pc = "router"
    /\ LET sid == response.session_id
       IN IF sid # "" /\ sid \in DOMAIN db
          THEN /\ rows' = [rows EXCEPT ![sid] = RecordedRows(@, request, response)]
               /\ response' = [response EXCEPT
                                 !.conversation_history = rows'[sid],
                                 !.total_messages = Len(rows'[sid]),
                                 !.http = IF NoneVal \in DOMAIN response.collected_data
                                          THEN 500 ELSE 200]
          ELSE /\ rows' = rows
               /\ response' = [response EXCEPT
                                 !.http = IF NoneVal \in DOMAIN response.collected_data
                                          THEN 500 ELSE 200]
    /\ pc' = "idle"
    /\ UNCHANGED <<db, request, state, node, steps, lastRun, obs,
                   prevEnd, db0, turns, probe, svc>>

\* routers/medical.py 186-188: a database call of the endpoint raises
ChatEndpointFails ==
    /\ pc = "router"
    /\ response' = [response EXCEPT !.http = 500]
    /\ pc' = "idle"
    /\ UNCHANGED <<db, rows, request, state, node, steps, lastRun, obs,
                   prevEnd, db0, turns, probe, svc>>

Next ==
    \/ LoadConversation
    \/ CreateConversation
    \/ LoadFails
    \/ RunOrchestrator
    \/ RunGreeting
    \/ RunExtraction
    \/ RunEvaluation
    \/ RunQuestion
    \/ RunCompletion
    \/ RunEmergency
    \/ GraphRecursionError
    \/ SaveAndReturn
    \/ SaveFails
    \/ VerificationFails
    \/ ChatEndpoint
    \/ ChatEndpointFails

Spec == Init /\ [][Next]_vars

----------------------------------------------------------------------------
(* agents.py prepare_agent_context: what the orchestrator is told *)

\* agents.py 475-480
get_last_user_message(s) ==
    LET human == {i \in 1..Len(s.messages) : s.messages[i].cls = "HumanMessage"}
    IN IF human = {} THEN ""
       ELSE s.messages[CHOOSE i \in human : \A j \in human : j <= i].content

\* agents.py 85-127: the conversation_state put into the orchestrator's context
conversation_state(s) ==
    LET ai_message_count == CountCls(s.messages, "AIMessage")
        user_message_count == CountCls(s.messages, "HumanMessage")
        has_ai_messages == ai_message_count > 0
        has_user_messages == user_message_count > 0
        last_agent_action == s.ai_context.last_agent_action
        by_messages ==
            IF ~has_ai_messages /\ ~has_user_messages THEN "new_session_needs_greeting"
            ELSE IF has_ai_messages /\ user_message_count > ai_message_count
                 THEN "user_responded_needs_processing"
            ELSE IF has_ai_messages /\ user_message_count = ai_message_count
                 THEN "waiting_for_user_response"
            ELSE IF last_agent_action = "greeting_sent" /\ get_last_user_message(s) # ""
                 THEN "user_responded_after_greeting"
            ELSE "continuing"
        by_action == IF last_agent_action = "extraction_complete"
                     THEN "extraction_complete_needs_evaluation" ELSE by_messages
    IN IF Len(s.messages) >= AutoCompleteMessages
          /\ s.completion_readiness >= AutoCompleteReadiness
       THEN "auto_completion_triggered"
       ELSE by_action

----------------------------------------------------------------------------
(* The second turn of a conversation: the store holds the conversation that *)
(* a first call without session id and with an empty message has left.      *)

\* The state at the end of that first turn: the orchestrator named the
\* greeting agent and the greeting agent answered
GreetingTurnState ==
    LET first == InitialState(SessionNames[1], "", NoLoad)
        named == run_ai_agent(first, [NoReply EXCEPT !.kind = "ok",
                                                     !.next_agent = GREETING_AGENT,
                                                     !.priority_field = Absent])
    IN run_ai_agent(named, [NoReply EXCEPT !.kind = "ok", !.content = "greeting"])

\* result.py 182-198, 230-283: the row created and then saved by that turn
GreetedConversation == SavedConversation(NewConversation, GreetingTurnState)

InitSecondTurn ==
    /\ db = [s \in {SessionNames[1]} |-> GreetedConversation]
    /\ rows = [s \in {SessionNames[1]} |-> <<>>]
    /\ pc = "idle"
    /\ request = NoRequest
    /\ state = InitialState("", "", NoLoad)
    /\ node = END
    /\ steps = 0
    /\ lastRun = NoRun
    /\ obs = NoObs
    /\ prevEnd = NoEnd
    /\ db0 = db
    /\ response = NoResponse
    /\ turns = 0
    /\ probe = NoReply
    /\ ServicesIdle

SpecSecondTurn == InitSecondTurn /\ [][Next]_vars

----------------------------------------------------------------------------
(* The orchestrator step on its own: run_ai_agent applied to a state whose    *)
(* next_step is the orchestrator, with the reply it was given kept in probe.  *)

\* last_agent_action as the orchestrator can find it: at the start of a turn,
\* after an extraction, after a question or after an unread evaluation
OrchestratorContexts ==
    {"none", "extraction_complete", "extraction_error", "question_asked",
     "evaluation_error"}

OrchestratorInputs ==
    {[InitialState(sid, message, LoadState([s \in {"s0"} |-> StoredConversation], sid))
        EXCEPT !.ai_context.last_agent_action = la] :
        sid \in {"s0", GhostSession}, message \in UserMessages,
        la \in OrchestratorContexts}

InitOrchestrator ==
    /\ db = [s \in {"s0"} |-> StoredConversation]
    /\ rows = [s \in {"s0"} |-> StoredRows]
    /\ pc = "orchestrator"
    /\ request = NoRequest
    /\ state \in OrchestratorInputs
    /\ node = ORCHESTRATOR
    /\ steps = 0
    /\ lastRun = NoRun
    /\ obs = NoObs
    /\ prevEnd = NoEnd
    /\ db0 = db
    /\ response = NoResponse
    /\ turns = 1
    /\ probe = NoReply
    /\ ServicesIdle

\* agents.py 33-69 with next_step = orchestrator
OrchestratorStep ==
    /\ pc = "orchestrator"
    /\ state.next_step = ORCHESTRATOR
    /\ \E r \in OrchestratorReplies :
          /\ state' = run_ai_agent(state, r)
          /\ probe' = r
    /\ pc' = "orchestrated"
    /\ UNCHANGED <<db, rows, request, node, steps, lastRun, obs, prevEnd, db0,
                   response, turns, svc>>

NextOrchestrator == OrchestratorStep

SpecOrchestrator == InitOrchestrator /\ [][NextOrchestrator]_vars

----------------------------------------------------------------------------
(* Python values of collected_data.  A str is a sequence of one-character   *)
(* strings, so that lower() and strip() are computed, not assumed.          *)

PyNone == [kind |-> "none"]
PyStr(chars) == [kind |-> "str", chars |-> chars]
PyList(n) == [kind |-> "list", len |-> n]
PyDict(n) == [kind |-> "dict", len |-> n]
PyInt(n) == [kind |-> "int", val |-> n]

UpperLetters ==
    <<"A", "B", "C", "D", "E", "F", "G", "H", "I", "J", "K", "L", "M",
      "N", "O", "P", "Q", "R", "S", "T", "U", "V", "W", "X", "Y", "Z">>
LowerLetters ==
    <<"a", "b", "c", "d", "e", "f", "g", "h", "i", "j", "k", "l", "m",
      "n", "o", "p", "q", "r", "s", "t", "u", "v", "w", "x", "y", "z">>

\* str.lower, one character
LowerChar(c) ==
    IF \E i \in 1..Len(UpperLetters) : UpperLetters[i] = c
    THEN LowerLetters[CHOOSE i \in 1..Len(UpperLetters) : UpperLetters[i] = c]
    ELSE c

\* str.lower
lower(chars) == [i \in 1..Len(chars) |-> LowerChar(chars[i])]

Whitespace == {" ", "\t", "\n"}

\* str.strip: leading and trailing whitespace removed
strip(chars) ==
    LET solid == {i \in 1..Len(chars) : chars[i] \notin Whitespace}
    IN IF solid = {} THEN <<>>
       ELSE LET first == CHOOSE i \in solid : \A j \in solid : i <= j
                last == CHOOSE i \in solid : \A j \in solid : j <= i
            IN SubSeq(chars, first, last)

----------------------------------------------------------------------------
(* services/completeness_manager.py: evaluate_data_completeness *)

MINIMUM_FOR_STORAGE == 8
SUBSTANTIAL_COMPLETION == 15
COMPREHENSIVE_COMPLETION == 25

\* config/models.py 41-47: the names (and values) of the enum's members
DataCompletenessLevel == {"MINIMAL", "BASIC", "ADEQUATE", "COMPREHENSIVE", "COMPLETE"}

\* completeness_manager.py 50-77, in the order the categories are iterated
required_fields ==
    <<"primary_symptom", "when_started", "what_brings_you_in",
      "onset", "location", "duration", "character", "severity",
      "timing", "aggravating_factors", "relieving_factors",
      "past_medical_history", "current_conditions", "surgeries", "hospitalizations",
      "current_medications", "dosages", "over_the_counter", "supplements",
      "drug_allergies", "food_allergies", "environmental_allergies", "reactions",
      "smoking", "alcohol", "drugs", "occupation", "work_exposures",
      "family_medical_conditions", "genetic_history",
      "cardiovascular", "respiratory", "gastrointestinal", "neurological",
      "skin", "genitourinary", "musculoskeletal", "psychiatric">>

\* completeness_manager.py 209-212
meaningless_responses ==
    {<<"u", "n", "k", "n", "o", "w", "n">>,
     <<"n", "o", "t", " ", "s", "u", "r", "e">>,
     <<"m", "a", "y", "b", "e">>,
     <<"i", " ", "d", "o", "n", "'", "t", " ", "k", "n", "o", "w">>,
     <<"n", "/", "a">>,
     <<"n", "o", "n", "e">>,
     <<"n", "o">>,
     <<"y", "e", "s">>,
     <<"o", "k">>,
     <<"f", "i", "n", "e">>,
     <<"n", "o", "r", "m", "a", "l">>,
     <<"r", "e", "g", "u", "l", "a", "r">>}

\* field_has_meaningful_data comparing the value as it is, without lower()
field_has_meaningful_data_NoLower(collected_data, field) ==
    IF field \notin DOMAIN collected_data THEN FALSE
    ELSE LET value == collected_data[field]
         IN IF value = PyNone \/ value = PyStr(<<>>)
                \/ value = PyStr(<<"n", "u", "l", "l">>)
            THEN FALSE
            ELSE IF value.kind \in {"list", "dict"} /\ value.len = 0 THEN FALSE
            ELSE IF value.kind = "str" /\ strip(value.chars) \in meaningless_responses
                 THEN FALSE
                 ELSE TRUE

\* completeness_manager.py 193-217
field_has_meaningful_data(collected_data, field) ==
    IF field \notin DOMAIN collected_data THEN FALSE
    ELSE LET value == collected_data[field]
         IN IF value = PyNone \/ value = PyStr(<<>>)
                \/ value = PyStr(<<"n", "u", "l", "l">>)
            THEN FALSE
            ELSE IF value.kind \in {"list", "dict"} /\ value.len = 0 THEN FALSE
            ELSE IF value.kind = "str"
                    /\ strip(lower(value.chars)) \in meaningless_responses
                 THEN FALSE
                 ELSE TRUE

\* completeness_manager.py 112-123: the counting loop
total_fields_collected(collected_data) ==
    Cardinality({i \in 1..Len(required_fields) :
                    field_has_meaningful_data(collected_data, required_fields[i])})

\* completeness_manager.py 156-163: the member of DataCompletenessLevel the code names
completeness_level(n) ==
    IF n >= COMPREHENSIVE_COMPLETION THEN "COMPREHENSIVE"
    ELSE IF n >= SUBSTANTIAL_COMPLETION THEN "SUBSTANTIAL"
    ELSE IF n >= MINIMUM_FOR_STORAGE THEN "PARTIAL"
    ELSE "MINIMAL"

\* config/models.py 139-147, 155-160: the columns of a Conversation the services use
ServiceConversation ==
    [status |-> "ACTIVE", data_completeness_level |-> "MINIMAL",
     min_data_threshold_met |-> FALSE, can_be_saved |-> FALSE,
     idle_timeout_minutes |-> 5, session_timeout_minutes |-> 30,
     timeout_warnings |-> 0, timeout_events |-> <<>>]

\* completeness_manager.py 91-191: what the call returns; naming a member the
\* enum does not have raises AttributeError
evaluate_result(store, conversation_id, collected_data) ==
    LET n == total_fields_collected(collected_data)
    IN IF conversation_id \notin DOMAIN store
       THEN [status |-> "returned", error |-> "Conversation not found"]
       ELSE IF completeness_level(n) \notin DataCompletenessLevel
       THEN [status |-> "raised", error |-> "AttributeError"]
       ELSE [status |-> "returned", error |-> "",
             completeness_level |-> completeness_level(n),
             total_fields_collected |-> n,
             total_possible_fields |-> Len(required_fields),
             meets_storage_threshold |-> n >= MINIMUM_FOR_STORAGE,
             can_complete_session |-> n >= SUBSTANTIAL_COMPLETION]

\* completeness_manager.py 173-179: the conversation row after the commit
evaluate_store(store, conversation_id, collected_data) ==
    LET r == evaluate_result(store, conversation_id, collected_data)
    IN IF r.status = "returned" /\ r.error = ""
       THEN [store EXCEPT ![conversation_id] =
                [@ EXCEPT !.data_completeness_level = r.completeness_level,
                          !.min_data_threshold_met = r.meets_storage_threshold,
                          !.can_be_saved = r.meets_storage_threshold]]
       ELSE store

(* The inputs: the first k required fields filled with a plain answer, the    *)
(* last required field holding a value under test, and a key that is not a    *)
(* required field.                                                            *)

PlainAnswer == PyStr(<<"f", "e", "v", "e", "r">>)

FieldValues ==
    {PyNone, PyInt(0), PyList(0), PyList(1), PyDict(0), PyDict(1),
     PyStr(<<>>), PyStr(<<" ">>),
     PyStr(<<"n", "u", "l", "l">>), PyStr(<<"N", "U", "L", "L">>),
     PyStr(<<"n", "/", "a">>), PyStr(<<" ", "N", "/", "A", " ">>),
     PyStr(<<"N", "o", "t", " ", "S", "u", "r", "e">>),
     PyStr(<<"Y", "E", "S", "\n">>), PyStr(<<"\t", "o", "k">>),
     PyStr(<<"n", "o", " ", "p", "a", "i", "n">>),
     PyStr(<<"n", "o", "p", "e">>),
     PlainAnswer}

MaxPlainFields == Len(required_fields) - 1

TestedField == required_fields[Len(required_fields)]

\* The tested field is not a key of collected_data
NotInData == [kind |-> "absent"]

CollectedData(k, tested, other) ==
    [f \in {required_fields[i] : i \in 1..k}
           \cup (IF tested = NotInData THEN {} ELSE {TestedField})
           \cup (IF other THEN {"age"} ELSE {}) |->
        IF f = TestedField THEN tested ELSE PlainAnswer]

CompletenessInputs ==
    {[op |-> "evaluate_data_completeness", conversation_id |-> c,
      collected_data |-> CollectedData(k, v, o)] :
        c \in {1, 2}, k \in 0..MaxPlainFields, v \in FieldValues \cup {NotInData},
        o \in BOOLEAN}

InitCompleteness ==
    /\ db = [c \in {1} |-> ServiceConversation]
    /\ rows = [c \in {1} |-> <<>>]
    /\ pc = "service"
    /\ request = NoRequest
    /\ state = InitialState("", "", NoLoad)
    /\ node = END
    /\ steps = 0
    /\ lastRun = NoRun
    /\ obs = NoObs
    /\ prevEnd = NoEnd
    /\ db0 = db
    /\ response = NoResponse
    /\ turns = 0
    /\ probe = NoReply
    /\ call \in CompletenessInputs
    /\ result = NoResult
    /\ tracking = <<>>
    /\ calls = <<>>

\* completeness_manager.py 91-191
EvaluateDataCompleteness ==
    /\ pc = "service"
    /\ call.op = "evaluate_data_completeness"
    /\ result' = evaluate_result(db, call.conversation_id, call.collected_data)
    /\ db' = evaluate_store(db, call.conversation_id, call.collected_data)
    /\ pc' = "done"
    /\ UNCHANGED <<rows, request, state, node, steps, lastRun, obs, prevEnd, db0,
                   response, turns, probe, call, tracking, calls>>

NextCompleteness == EvaluateDataCompleteness

SpecCompleteness == InitCompleteness /\ [][NextCompleteness]_vars

----------------------------------------------------------------------------
(* services/completeness_manager.py: check_timeout_status.  Idle time is      *)
(* counted in tenths of a minute, so that 70% of a whole number of minutes    *)
(* is exact; the rounding of Python floats is not modelled.                   *)

\* timeout_status with the nudge threshold compared by > instead of >=
timeout_status_StrictNudge(idle_tenths, conversation) ==
    IF idle_tenths >= 10 * conversation.session_timeout_minutes THEN "timeout"
    ELSE IF idle_tenths >= 10 * conversation.idle_timeout_minutes THEN "idle_warning"
    ELSE IF idle_tenths > 7 * conversation.idle_timeout_minutes
         THEN "approaching_timeout"
         ELSE "active"

\* completeness_manager.py 355-366: the branch taken for an idle time
timeout_status(idle_tenths, conversation) ==
    IF idle_tenths >= 10 * conversation.session_timeout_minutes THEN "timeout"
    ELSE IF idle_tenths >= 10 * conversation.idle_timeout_minutes THEN "idle_warning"
    ELSE IF idle_tenths >= 7 * conversation.idle_timeout_minutes
         THEN "approaching_timeout"
         ELSE "active"

\* timeout_conversation with the saved data ignored: a timed-out conversation
\* always becomes TIMEOUT
timeout_conversation_NeverPaused(conversation, status) ==
    CASE status = "timeout" ->
            [conversation EXCEPT !.status = "TIMEOUT",
                                 !.timeout_events = Append(@, "timeout")]
      [] status = "idle_warning" ->
            [conversation EXCEPT
                !.timeout_warnings = @ + 1,
                !.timeout_events = Append(@, IF conversation.timeout_warnings + 1 = 1
                                             THEN "warning" ELSE "final_warning")]
      [] OTHER -> conversation

\* completeness_manager.py 368-393, 395-408: the conversation after the handler,
\* timeout_events holding the event_type of each TimeoutEvent row added
timeout_conversation(conversation, status) ==
    CASE status = "timeout" ->
            [conversation EXCEPT
                !.status = IF conversation.min_data_threshold_met
                           THEN "PAUSED" ELSE "TIMEOUT",
                !.timeout_events = Append(@, "timeout")]
      [] status = "idle_warning" ->
            [conversation EXCEPT
                !.timeout_warnings = @ + 1,
                !.timeout_events = Append(@, IF conversation.timeout_warnings + 1 = 1
                                             THEN "warning" ELSE "final_warning")]
      [] OTHER -> conversation

\* completeness_manager.py 342-366, 395-436: what the call returns, with the
\* keys of the branch taken
check_timeout_result(store, conversation_id, idle_tenths) ==
    IF conversation_id \notin DOMAIN store
    THEN [status |-> "none", error |-> "Conversation not found"]
    ELSE LET status == timeout_status(idle_tenths, store[conversation_id])
             after == timeout_conversation(store[conversation_id], status)
         IN CASE status = "timeout" ->
                    [status |-> status, error |-> "",
                     can_resume |-> after.min_data_threshold_met,
                     session_saved |-> after.min_data_threshold_met]
              [] status = "idle_warning" ->
                    [status |-> status, error |-> "",
                     warning_count |-> after.timeout_warnings,
                     can_continue |-> TRUE, can_pause |-> TRUE]
              [] status = "approaching_timeout" ->
                    [status |-> status, error |-> ""]
              [] OTHER -> [status |-> status, error |-> "", no_timeout |-> TRUE]

\* models.py 152-153: the defaults and other settings of the two timeouts
IdleTimeouts == {3, 5, 10}
SessionTimeouts == {4, 30}

\* Idle times around every threshold, and one of a clock that lags
IdleTenths ==
    {-600, 0, 20, 21, 22, 34, 35, 36, 39, 40, 41, 49, 50, 51,
     69, 70, 71, 99, 100, 101, 299, 300, 301}

TimeoutInputs ==
    {[op |-> "check_timeout_status", conversation_id |-> c, idle_tenths |-> m] :
        c \in {1, 2}, m \in IdleTenths}

InitTimeout ==
    /\ \E i \in IdleTimeouts, t \in SessionTimeouts, met \in BOOLEAN, w \in {0, 1} :
          db = [c \in {1} |->
                  [ServiceConversation EXCEPT !.idle_timeout_minutes = i,
                                              !.session_timeout_minutes = t,
                                              !.min_data_threshold_met = met,
                                              !.timeout_warnings = w]]
    /\ rows = [c \in {1} |-> <<>>]
    /\ pc = "service"
    /\ request = NoRequest
    /\ state = InitialState("", "", NoLoad)
    /\ node = END
    /\ steps = 0
    /\ lastRun = NoRun
    /\ obs = NoObs
    /\ prevEnd = NoEnd
    /\ db0 = db
    /\ response = NoResponse
    /\ turns = 0
    /\ probe = NoReply
    /\ call \in TimeoutInputs
    /\ result = NoResult
    /\ tracking = <<>>
    /\ calls = <<>>

\* completeness_manager.py 342-366
CheckTimeoutStatus ==
    /\ pc = "service"
    /\ call.op = "check_timeout_status"
    /\ result' = check_timeout_result(db, call.conversation_id, call.idle_tenths)
    /\ db' = IF call.conversation_id \in DOMAIN db
             THEN [db EXCEPT ![call.conversation_id] =
                     timeout_conversation(@, timeout_status(call.idle_tenths, @))]
             ELSE db
    /\ pc' = "done"
    /\ UNCHANGED <<rows, request, state, node, steps, lastRun, obs, prevEnd, db0,
                   response, turns, probe, call, tracking, calls>>

NextTimeout == CheckTimeoutStatus

SpecTimeout == InitTimeout /\ [][NextTimeout]_vars

----------------------------------------------------------------------------
(* services/conversation_memory.py: track_question_asked.  A question text is *)
(* a sequence of characters; a conversation's id is written as its session id.*)

\* conversation_memory.py 328
remove_words ==
    {<<"w", "h", "a", "t">>, <<"w", "h", "e", "n">>, <<"w", "h", "e", "r", "e">>,
     <<"h", "o", "w">>, <<"c", "a", "n">>, <<"y", "o", "u">>, <<"t", "e", "l", "l">>,
     <<"m", "e">>, <<"a", "b", "o", "u", "t">>, <<"t", "h", "e">>, <<"i", "s">>,
     <<"a", "r", "e">>, <<"d", "o">>, <<"d", "o", "e", "s">>}

\* str.split(): the maximal runs of characters that are not whitespace
RECURSIVE split(_)
split(chars) ==
    IF chars = <<>> THEN <<>>
    ELSE IF Head(chars) \in Whitespace THEN split(Tail(chars))
    ELSE LET ws == {i \in 1..Len(chars) : chars[i] \in Whitespace}
             end == IF ws = {} THEN Len(chars) + 1
                    ELSE CHOOSE i \in ws : \A j \in ws : i <= j
         IN <<SubSeq(chars, 1, end - 1)>> \o split(SubSeq(chars, end, Len(chars)))

\* The characters of the model in the order of their code points
CodePoints == <<"\t", "\n", " ", "'", "/", "?">> \o UpperLetters \o LowerLetters

CodePoint(c) == CHOOSE i \in 1..Len(CodePoints) : CodePoints[i] = c

\* a < b as Python compares str
RECURSIVE StrLess(_, _)
StrLess(a, b) ==
    IF a = <<>> THEN b # <<>>
    ELSE IF b = <<>> THEN FALSE
    ELSE IF Head(a) = Head(b) THEN StrLess(Tail(a), Tail(b))
    ELSE CodePoint(Head(a)) < CodePoint(Head(b))

RECURSIVE Insert(_, _)
Insert(w, words) ==
    IF words = <<>> THEN <<w>>
    ELSE IF StrLess(Head(words), w) THEN <<Head(words)>> \o Insert(w, Tail(words))
    ELSE <<w>> \o words

\* sorted left out: the words stay in the order of the text
sorted_AsGiven(words) == words

\* sorted(words)
RECURSIVE sorted(_)
sorted(words) ==
    IF words = <<>> THEN <<>> ELSE Insert(Head(words), sorted(Tail(words)))

\* " ".join(words)
RECURSIVE join(_)
join(words) ==
    IF words = <<>> THEN <<>>
    ELSE IF Len(words) = 1 THEN Head(words)
    ELSE Head(words) \o <<" ">> \o join(Tail(words))

\* hashlib.md5(s.encode()).hexdigest()[:8], tabulated for the strings of the model
Md5Prefixes ==
    <<<<<<"a", "g", "e", " ", "y", "o", "u", "r">>, "0f2e5ee4">>,
      <<<<"y", "o", "u", "r", " ", "a", "g", "e">>, "3b336455">>,
      <<<<"p", "a", "i", "n">>, "87a42987">>,
      <<<<"a", "g", "e", "?", " ", "y", "o", "u", "r">>, "672948ee">>,
      <<<<"y", "o", "u", "r", " ", "a", "g", "e", "?">>, "181a4fe7">>,
      <<<<>>, "d41d8cd9">>>>

md5_prefix(chars) ==
    Md5Prefixes[CHOOSE i \in 1..Len(Md5Prefixes) : Md5Prefixes[i][1] = chars][2]

\* conversation_memory.py 322-333
hash_question_intent(question_text) ==
    LET normalized == lower(question_text)
        words == SelectSeq(split(normalized), LAMBDA word : word \notin remove_words)
        intent_string == join(sorted(words))
    IN md5_prefix(intent_string)

\* conversation_memory.py 158-161: the rows the query matches
existing_question(table, conversation_id, question_hash) ==
    {i \in 1..Len(table) : /\ table[i].conversation_id = conversation_id
                           /\ table[i].question_hash = question_hash}

\* conversation_memory.py 145-198: the table after the call
track_question_table(table, store, session_id, question_text) ==
    IF session_id \notin DOMAIN store THEN table
    ELSE LET h == hash_question_intent(question_text)
             found == existing_question(table, session_id, h)
         IN IF found # {}
            THEN LET first == CHOOSE i \in found : \A j \in found : i <= j
                 IN [table EXCEPT ![first].attempt_count = @ + 1]
            ELSE Append(table, [conversation_id |-> session_id,
                                question_text |-> question_text,
                                question_hash |-> h,
                                attempt_count |-> 1])

\* conversation_memory.py 145-198: what the call returns
track_question_result(table, store, session_id, question_text) ==
    IF session_id \notin DOMAIN store
    THEN [status |-> "returned", error |-> "Conversation not found"]
    ELSE LET h == hash_question_intent(question_text)
             found == existing_question(table, session_id, h)
         IN IF found # {}
            THEN LET first == CHOOSE i \in found : \A j \in found : i <= j
                 IN [status |-> "returned", error |-> "", already_asked |-> TRUE,
                     attempt_count |-> table[first].attempt_count + 1]
            ELSE [status |-> "returned", error |-> "", already_asked |-> FALSE,
                  attempt_count |-> 1]

MaxAsks == 3

QuestionTexts ==
    {<<"W", "h", "a", "t", " ", "i", "s", " ", "y", "o", "u", "r", " ", "a", "g", "e">>,
     <<"y", "o", "u", "r", " ", "a", "g", "e">>,
     <<"A", "G", "E", " ", "y", "o", "u", "r">>,
     <<"W", "h", "e", "r", "e", " ", "i", "s", " ", "t", "h", "e", " ", "p", "a", "i", "n">>,
     <<"p", "a", "i", "n">>,
     <<"t", "h", "e", " ", " ", "P", "A", "I", "N", "\t", "w", "h", "e", "r", "e">>,
     <<"y", "o", "u", "r", " ", "a", "g", "e", "?">>,
     <<"H", "o", "w", " ", "a", "r", "e", " ", "y", "o", "u">>}

QuestionSessions == {"sA", "sB"}

InitQuestions ==
    /\ db = [c \in QuestionSessions |-> ServiceConversation]
    /\ rows = [c \in QuestionSessions |-> <<>>]
    /\ pc = "service"
    /\ request = NoRequest
    /\ state = InitialState("", "", NoLoad)
    /\ node = END
    /\ steps = 0
    /\ lastRun = NoRun
    /\ obs = NoObs
    /\ prevEnd = NoEnd
    /\ db0 = db
    /\ response = NoResponse
    /\ turns = 0
    /\ probe = NoReply
    /\ call = NoCall
    /\ result = NoResult
    /\ tracking = <<>>
    /\ calls = <<>>

\* conversation_memory.py 145-198
TrackQuestionAsked ==
    /\ pc = "service"
    /\ turns < MaxAsks
    /\ \E sid \in QuestionSessions \cup {GhostSession}, text \in QuestionTexts :
          /\ call' = [op |-> "track_question_asked", session_id |-> sid,
                      question_text |-> text]
          /\ result' = track_question_result(tracking, db, sid, text)
          /\ tracking' = track_question_table(tracking, db, sid, text)
    /\ turns' = turns + 1
    /\ UNCHANGED <<db, rows, pc, request, state, node, steps, lastRun, obs, prevEnd,
                   db0, response, probe, calls>>

NextQuestions == TrackQuestionAsked

SpecQuestions == InitQuestions /\ [][NextQuestions]_vars

----------------------------------------------------------------------------
(* Two process_message calls on one session side by side (two workers of the *)
(* service).  Each call touches the store twice, when it loads (result.py    *)
(* 131-181) and when it saves (result.py 237-283); its graph run in between  *)
(* is local and is taken here as one step along one path of the graph:       *)
(* orchestrator, extraction, orchestrator, evaluation, question, orchestrator.*)

\* graph.invoke for a given sequence of LLM replies: the final state and the
\* node reached when the replies are used up
RECURSIVE RunGraph(_, _, _)
RunGraph(s, n, replies) ==
    IF n = END \/ n = "error" \/ replies = <<>> THEN [state |-> s, node |-> n]
    ELSE LET s2 == run_ai_agent(s, Head(replies))
         IN RunGraph(s2, NextNode(n, s2), Tail(replies))

\* The replies of a turn that extracts one field and asks the next question
OverlapScript(field) ==
    <<[NoReply EXCEPT !.kind = "ok", !.next_agent = EXTRACTION_AGENT,
                      !.priority_field = Absent],
      [NoReply EXCEPT !.kind = "ok", !.target_field = field, !.extracted_value = "v2"],
      [NoReply EXCEPT !.kind = "ok", !.next_agent = EVALUATION_AGENT,
                      !.priority_field = Absent],
      [NoReply EXCEPT !.kind = "ok", !.completion_readiness = AutoCompleteReadiness - 1,
                      !.emergency_level = Absent, !.next_field_to_collect = Absent],
      [NoReply EXCEPT !.kind = "ok", !.content = "question"],
      [NoReply EXCEPT !.kind = "ok", !.next_agent = "end", !.priority_field = Absent]>>

OverlapFields == {"age", "onset", "location"}

\* The message each of the two calls sends
OverlapMessages == <<"hi", "ok">>

OverlapCalls == 1..Len(OverlapMessages)

InitOverlap ==
    /\ db = [s \in {SessionNames[1]} |-> GreetedConversation]
    /\ rows = [s \in {SessionNames[1]} |-> <<>>]
    /\ pc = "overlap"
    /\ request = NoRequest
    /\ state = InitialState("", "", NoLoad)
    /\ node = END
    /\ steps = 0
    /\ lastRun = NoRun
    /\ obs = NoObs
    /\ prevEnd = NoEnd
    /\ db0 = db
    /\ response = NoResponse
    /\ turns = 0
    /\ probe = NoReply
    /\ call = NoCall
    /\ result = NoResult
    /\ tracking = <<>>
    /\ calls = [i \in OverlapCalls |->
                  [pc |-> "start", overlapped |-> FALSE,
                   state |-> InitialState("", "", NoLoad)]]

OverlapUnchanged ==
    UNCHANGED <<rows, pc, request, state, node, steps, lastRun, obs, prevEnd, db0,
                response, turns, probe, call, result, tracking>>

\* result.py 131-219: call i loads the conversation and builds its initial state
OverlapLoad(i) ==
    /\ pc = "overlap"
    /\ calls[i].pc = "start"
    /\ calls' = [calls EXCEPT
          ![i] = [pc |-> "loaded",
                  overlapped |-> \E j \in OverlapCalls \ {i} :
                                     calls[j].pc \in {"loaded", "ran"},
                  state |-> InitialState(SessionNames[1], OverlapMessages[i],
                                         LoadState(db, SessionNames[1]))]]
    /\ UNCHANGED db
    /\ OverlapUnchanged

\* result.py 222: call i runs its graph to END
OverlapGraph(i) ==
    /\ pc = "overlap"
    /\ calls[i].pc = "loaded"
    /\ \E field \in OverlapFields :
          LET run == RunGraph(calls[i].state, ORCHESTRATOR, OverlapScript(field))
          IN /\ run.node = END
             /\ calls' = [calls EXCEPT ![i].pc = "ran", ![i].state = run.state]
    /\ UNCHANGED db
    /\ OverlapUnchanged

\* result.py 230-283: call i saves its final state
OverlapSave(i) ==
    /\ pc = "overlap"
    /\ calls[i].pc = "ran"
    /\ db' = SaveState(db, calls[i].state)
    /\ calls' = [calls EXCEPT ![i].pc = "done"]
    /\ OverlapUnchanged

NextOverlap ==
    \E i \in OverlapCalls :
        \/ OverlapLoad(i)
        \/ OverlapGraph(i)
        \/ OverlapSave(i)

SpecOverlap == InitOverlap /\ [][NextOverlap]_vars

----------------------------------------------------------------------------
(* Properties *)

LastMessage(msgs) == IF Len(msgs) = 0 THEN HumanMessage("") ELSE msgs[Len(msgs)]

\* process_message has returned a result (not the apology) for the turn
TurnEnded == pc = "router" /\ prevEnd.valid

\* C1: whenever the evaluation step of a turn reports emergency_detected, the
\* emergency agent runs in that turn before it ends: the turn's last message is
\* the emergency AI message and conversation_complete is true, whatever
\* should_complete and the auto-completion thresholds are.
C1_EmergencyAgentRuns ==
    (TurnEnded /\ obs.eval_emergency) =>
        /\ obs.emergency_ran
        /\ prevEnd.conversation_complete
        /\ LastMessage(prevEnd.messages) = AIMessage("emergency")

\* C2: whenever the evaluation step leaves conversation_complete true without an
\* emergency, the completion agent runs in that turn and its closing AI message
\* is appended before the turn ends.
C2_CompletionAgentRuns ==
    (TurnEnded /\ obs.eval_complete) =>
        /\ obs.completion_ran
        /\ LastMessage(prevEnd.messages) = AIMessage("summary")

\* C3: when a turn ends with conversation_complete true, the stored conversation
\* is finalized: status COMPLETED, completed_at set, collected_data holding the
\* turn's final collected fields.
C3_CompleteTurnFinalized ==
    (TurnEnded /\ prevEnd.conversation_complete /\ prevEnd.session_id \in DOMAIN db) =>
        /\ db[prevEnd.session_id].status = "COMPLETED"
        /\ db[prevEnd.session_id].completed_at
        /\ db[prevEnd.session_id].collected_data = JsonDict(prevEnd.collected_fields)

\* C4: for a turn that ends with conversation_complete false, the messages and
\* the collected fields the next process_message call on the same session loads
\* equal the messages and collected fields at the end of this turn.
C4_NextTurnLoadsThisTurn ==
    (TurnEnded /\ ~prevEnd.conversation_complete) =>
        /\ LoadState(db, prevEnd.session_id).messages = prevEnd.messages
        /\ LoadState(db, prevEnd.session_id).collected_fields = prevEnd.collected_fields

\* The edges the graph is said to have
DeclaredSuccessors(n) ==
    CASE n = ORCHESTRATOR ->
            {GREETING_AGENT, EXTRACTION_AGENT, EVALUATION_AGENT, QUESTION_AGENT,
             COMPLETION_AGENT, EMERGENCY_AGENT, END}
      [] n \in {GREETING_AGENT, COMPLETION_AGENT, EMERGENCY_AGENT} -> {END}
      [] n \in {EXTRACTION_AGENT, QUESTION_AGENT} -> {ORCHESTRATOR}
      [] n = EVALUATION_AGENT ->
            {QUESTION_AGENT, COMPLETION_AGENT, EMERGENCY_AGENT, ORCHESTRATOR, END}
      [] OTHER -> {}

\* C5: within a turn steps run only along the declared edges: the turn starts at
\* the orchestrator, every node that follows a node is one of its declared
\* successors, and the value a routing function returned is a key of that
\* node's edge map (the graph never fails on an unknown route).
C5_StepsFollowDeclaredEdges ==
    /\ response.error # "invalid route"
    /\ pc = "graph" =>
        /\ lastRun.node = "none" => node = ORCHESTRATOR
        /\ lastRun.node # "none" => node \in DeclaredSuccessors(lastRun.node)
        /\ lastRun.node = ORCHESTRATOR =>
              route_to_agent(state) \in DOMAIN OrchestratorEdges
        /\ lastRun.node = EVALUATION_AGENT =>
              route_from_evaluation(state) \in DOMAIN EvaluationEdges

\* C5 witness: an evaluation step whose reply could not be read was followed
\* along its edge back to the orchestrator
C5_Witness_EvaluationToOrchestrator ==
    /\ pc = "graph"
    /\ lastRun.node = EVALUATION_AGENT
    /\ node = ORCHESTRATOR
    /\ route_from_evaluation(state) = ORCHESTRATOR

\* The step a next_agent name stands for: the lower-case name of an agent is
\* the step itself, an upper-case name its lower-case step, "end"/"END" is END
UpperToStep ==
    [n \in UpperNames |->
        CASE n = "GREETING_AGENT" -> "greeting_agent"
          [] n = "EXTRACTION_AGENT" -> "extraction_agent"
          [] n = "EVALUATION_AGENT" -> "evaluation_agent"
          [] n = "QUESTION_AGENT" -> "question_agent"
          [] n = "COMPLETION_AGENT" -> "completion_agent"
          [] n = "EMERGENCY_AGENT" -> "emergency_agent"
          [] OTHER -> "END"]

NamedStep(n) ==
    IF n \in UpperNames THEN UpperToStep[n] ELSE IF n = "end" THEN "END" ELSE n

\* C6: after the orchestrator step has processed a reply, next_step is one of
\* the six agents or END: a next_agent in exact lower or upper case gives that
\* step; a missing or unrecognised name, an unparsable reply or a failed LLM
\* call gives greeting_agent.
C6_OrchestratorNextStep ==
    pc = "orchestrated" =>
        /\ state.next_step \in {"greeting_agent", "extraction_agent", "evaluation_agent",
                                "question_agent", "completion_agent", "emergency_agent",
                                "END"}
        /\ IF probe.kind = "ok" /\ probe.next_agent \in LowerNames \cup UpperNames
           THEN state.next_step = NamedStep(probe.next_agent)
           ELSE state.next_step = "greeting_agent"

\* C6 witness: an upper-case name was mapped to its step
C6_Witness_UpperCaseName ==
    /\ pc = "orchestrated"
    /\ probe.kind = "ok"
    /\ probe.next_agent = "EVALUATION_AGENT"
    /\ state.next_step = "evaluation_agent"

\* C7: once the question agent has appended a question in a turn, no
\* extraction, evaluation, question, completion or emergency step runs in that
\* turn.
C7_NoStepAfterQuestion == ~obs.after_question

\* The stored collected_data and messages of a session; those of a session
\* without a conversation are empty
Stored(store, sid) ==
    IF sid \in DOMAIN store
    THEN <<store[sid].collected_data, store[sid].variables.conversation_messages>>
    ELSE <<EmptyDict, <<>>>>

\* C8: process_message never raises: when an exception escapes loading, the
\* graph or the save, it returns the apology (conversation_complete false,
\* empty collected_data, fields_collected 0, next_field "age", an error) and the
\* stored collected_data and messages of every conversation are what they were
\* before the turn.
C8_ApologyLeavesStoreUnchanged ==
    (pc = "router" /\ response.error # "") =>
        /\ response.message = ApologyText
        /\ ~response.conversation_complete
        /\ response.collected_data = EmptyDict
        /\ response.fields_collected = 0
        /\ response.next_field = "age"
        /\ \A sid \in DOMAIN db : Stored(db, sid) = Stored(db0, sid)

\* C9: when the evaluation step has read a reply on a conversation of at least
\* 50 messages with completion_readiness >= 0.6, conversation_complete is true
\* after the step, and at the end of the turn, even if should_complete was
\* false; below either threshold conversation_complete after the step is the
\* reply's should_complete.
C9_AutoCompletion ==
    /\ (pc = "graph" /\ lastRun.node = EVALUATION_AGENT /\ lastRun.read) =>
          IF Len(state.messages) >= 50 /\ state.completion_readiness >= 6
          THEN state.conversation_complete
          ELSE state.conversation_complete = lastRun.should_complete
    /\ (TurnEnded /\ obs.eval_auto) => prevEnd.conversation_complete

\* C9 witness: the evaluation read should_complete = false on 50 messages with
\* readiness 0.6 and left conversation_complete true
C9_Witness_ForcedCompletion ==
    /\ pc = "graph"
    /\ lastRun.node = EVALUATION_AGENT
    /\ lastRun.read
    /\ ~lastRun.should_complete
    /\ Len(state.messages) = 50
    /\ state.completion_readiness = 6
    /\ state.conversation_complete

\* The agent's messages as the history would show them
AsHistory(msgs) ==
    [i \in 1..Len(msgs) |->
        [role |-> IF msgs[i].cls = "HumanMessage" THEN "user" ELSE "assistant",
         content |-> msgs[i].content]]

\* Every element of a is in b, in the order of a
RECURSIVE IsSubSeq(_, _)
IsSubSeq(a, b) ==
    IF a = <<>> THEN TRUE
    ELSE IF b = <<>> THEN FALSE
    ELSE IF Head(a) = Head(b) THEN IsSubSeq(Tail(a), Tail(b))
    ELSE IsSubSeq(a, Tail(b))

\* C10: the conversation_history /chat returns is the complete ordered history
\* of the session: it contains, in order, every user and assistant message the
\* agent holds for it (the greeting of an empty first message included), and
\* total_messages is its length.
C10_HistoryIsComplete ==
    (pc = "idle" /\ response.http = 200 /\ prevEnd.valid
       /\ prevEnd.session_id \in DOMAIN db) =>
        /\ IsSubSeq(AsHistory(prevEnd.messages), response.conversation_history)
        /\ response.total_messages = Len(response.conversation_history)

\* evaluate_data_completeness has been applied to the input
Evaluated == pc = "done" /\ call.op = "evaluate_data_completeness"

\* C11: evaluate_data_completeness maps the count of meaningfully filled required
\* fields to a level for every input (COMPREHENSIVE at 25 or more, SUBSTANTIAL at
\* 15 to 24, PARTIAL at 8 to 14, MINIMAL below 8), and the level it returns and
\* stores on the conversation is a member of DataCompletenessLevel.
C11_LevelOfEveryCount ==
    (Evaluated /\ call.conversation_id \in DOMAIN db) =>
        LET n == total_fields_collected(call.collected_data)
            level == IF n >= 25 THEN "COMPREHENSIVE"
                     ELSE IF n >= 15 THEN "SUBSTANTIAL"
                     ELSE IF n >= 8 THEN "PARTIAL" ELSE "MINIMAL"
        IN /\ result.status = "returned"
           /\ result.completeness_level = level
           /\ result.completeness_level \in DataCompletenessLevel
           /\ db[call.conversation_id].data_completeness_level = level

\* Leading, then trailing, whitespace dropped one character at a time
RECURSIVE TrimLeft(_)
TrimLeft(chars) ==
    IF chars # <<>> /\ Head(chars) \in Whitespace THEN TrimLeft(Tail(chars)) ELSE chars

RECURSIVE TrimRight(_)
TrimRight(chars) ==
    IF chars # <<>> /\ chars[Len(chars)] \in Whitespace
    THEN TrimRight(SubSeq(chars, 1, Len(chars) - 1)) ELSE chars

\* Two texts are the same up to letter case
SameIgnoringCase(a, b) ==
    /\ Len(a) = Len(b)
    /\ \A i \in 1..Len(a) :
          \/ a[i] = b[i]
          \/ \E j \in 1..Len(UpperLetters) :
                {a[i], b[i]} = {UpperLetters[j], LowerLetters[j]}

\* A value that counts: not null (None, or the text "null"), not an empty
\* string, list or dict, and not a placeholder up to case and outer whitespace
CountedValue(value) ==
    /\ value # PyNone
    /\ value # PyStr(<<"n", "u", "l", "l">>)
    /\ value # PyStr(<<>>)
    /\ value # PyList(0)
    /\ value # PyDict(0)
    /\ value.kind = "str" =>
          ~\E p \in meaningless_responses :
                SameIgnoringCase(TrimRight(TrimLeft(value.chars)), p)

C13_TimeoutClassification ==
    (pc = "done" /\ call.op = "check_timeout_status"
       /\ call.conversation_id \in DOMAIN db) =>
        LET m10 == call.idle_tenths
            c == db0[call.conversation_id]
        IN /\ m10 >= 10 * c.session_timeout_minutes => result.status = "timeout"
           /\ (m10 < 10 * c.session_timeout_minutes
                 /\ m10 >= 10 * c.idle_timeout_minutes) => result.status = "idle_warning"
           /\ (m10 < 10 * c.session_timeout_minutes
                 /\ m10 < 10 * c.idle_timeout_minutes
                 /\ 100 * m10 >= 70 * 10 * c.idle_timeout_minutes) =>
                    result.status = "approaching_timeout"
           /\ (m10 < 10 * c.session_timeout_minutes
                 /\ m10 < 10 * c.idle_timeout_minutes
                 /\ 100 * m10 < 70 * 10 * c.idle_timeout_minutes) =>
                    result.status = "active"

\* C13 witness: 3.5 idle minutes, exactly 70% of an idle timeout of 5, were
\* answered with the nudge
C13_Witness_NudgeAtSeventyPercent ==
    /\ pc = "done"
    /\ call.op = "check_timeout_status"
    /\ call.conversation_id \in DOMAIN db
    /\ call.idle_tenths = 35
    /\ db0[call.conversation_id].idle_timeout_minutes = 5
    /\ db0[call.conversation_id].session_timeout_minutes = 30
    /\ result.status = "approaching_timeout"

\* The words of a text that are no stop word, whatever their letter case
ContentWords(text) ==
    SelectSeq(split(text),
              LAMBDA w : ~\E stop \in remove_words : SameIgnoringCase(w, stop))

\* Two texts differ only in letter case, word order or the listed stop words
SameQuestion(a, b) ==
    LET wa == ContentWords(a)
        wb == ContentWords(b)
    IN /\ Len(wa) = Len(wb)
       /\ \E p \in Permutations(1..Len(wa)) :
             \A i \in 1..Len(wa) : SameIgnoringCase(wa[i], wb[p[i]])

\* The rows of a conversation that record a question the text repeats
AskedBefore(table, conversation, text) ==
    {i \in 1..Len(table) : /\ table[i].conversation_id = conversation
                           /\ SameQuestion(table[i].question_text, text)}

\* C14: track_question_asked detects repeats per conversation: the first asking
\* of a question creates one tracking record with attempt_count = 1 and returns
\* already_asked = false; any later asking in the same conversation whose text
\* differs only in letter case, word order or the listed stop words creates no
\* new record, increments that record's attempt_count by one and returns
\* already_asked = true; the same text asked in another conversation is not a
\* repeat.
C14_RepeatsPerConversation ==
    [][(call'.op = "track_question_asked" /\ call'.session_id \in DOMAIN db) =>
        LET before == AskedBefore(tracking, call'.session_id, call'.question_text)
        IN IF before = {}
           THEN /\ Len(tracking') = Len(tracking) + 1
                /\ SubSeq(tracking', 1, Len(tracking)) = tracking
                /\ tracking'[Len(tracking')].conversation_id = call'.session_id
                /\ tracking'[Len(tracking')].question_text = call'.question_text
                /\ tracking'[Len(tracking')].attempt_count = 1
                /\ result'.already_asked = FALSE
                /\ result'.attempt_count = 1
           ELSE /\ Cardinality(before) = 1
                /\ Len(tracking') = Len(tracking)
                /\ \A i \in 1..Len(tracking) :
                      tracking'[i] =
                         IF i \in before
                         THEN [tracking[i] EXCEPT !.attempt_count = @ + 1]
                         ELSE tracking[i]
                /\ result'.already_asked = TRUE]_vars

\* C14 witness: "the  PAIN<tab>where" was found to repeat "Where is the pain"
\* in one conversation after the other conversation had been asked the same
C14_Witness_RepeatFound ==
    /\ call.op = "track_question_asked"
    /\ result.status = "returned"
    /\ result.error = ""
    /\ result.already_asked
    /\ Len(tracking) = 2
    /\ tracking[1].conversation_id # tracking[2].conversation_id
    /\ \E i \in 1..2 :
          /\ tracking[i].conversation_id = call.session_id
          /\ tracking[i].attempt_count = 2
          /\ tracking[i].question_text # call.question_text
          /\ tracking[i].question_hash = tracking[3 - i].question_hash

\* C15: within a turn the extraction agent never runs twice without an
\* evaluation step in between: after an extraction completes (last_agent_action
\* = 'extraction_complete'), the agent that runs next is not extraction again.
C15_NoExtractionAfterExtraction ==
    [][(/\ pc = "graph"
        /\ state.ai_context.last_agent_action = "extraction_complete"
        /\ lastRun' # lastRun)
          => lastRun'.agent # EXTRACTION_AGENT]_vars

\* C16: every turn terminates: from any stored conversation state and for any
\* sequence of LLM replies (invalid ones and failed calls included) the graph
\* reaches END after finitely many agent steps; no run of the graph is stopped
\* before END.
C16_GraphReachesEnd ==
    /\ ~(pc = "graph" /\ node # END /\ steps >= RecursionLimit)
    /\ response.error \notin {"GraphRecursionError", "invalid route"}

\* C17: the greeting agent never runs in a conversation that already contains an
\* AI message, also when the orchestrator's reply cannot be parsed, names an
\* unknown agent, or the orchestrator call fails: after a greeting step the
\* greeting is the conversation's only AI message.
C17_GreetingOnlyOnce ==
    (pc = "graph" /\ lastRun.agent = GREETING_AGENT) =>
        CountCls(state.messages, "AIMessage") = 1

\* C18: after any sequence of turns the ai_context stored in a conversation's
\* variables is flat: variables['ai_context'] never itself contains an
\* 'ai_context' key.
C18_StoredContextIsFlat ==
    \A sid \in DOMAIN db : ~db[sid].variables.nested

\* C19: the conversation_state handed to the orchestrator is
\* 'waiting_for_user_response' only when the latest message of the conversation
\* is an AI message, and is 'user_responded_needs_processing' whenever the
\* conversation has AI messages and its latest message is a user message not yet
\* answered.  (The orchestrator step changes nothing conversation_state reads, so
\* the state it was handed is read off the state after its step.)
C19_ConversationState ==
    (pc = "graph" /\ lastRun.agent = ORCHESTRATOR) =>
        /\ conversation_state(state) = "waiting_for_user_response" =>
              LastMessage(state.messages).cls = "AIMessage"
        /\ (/\ CountCls(state.messages, "AIMessage") > 0
            /\ LastMessage(state.messages).cls = "HumanMessage") =>
              conversation_state(state) = "user_responded_needs_processing"

\* C20: if two process_message calls on the same session overlap, the state
\* stored after both have finished contains both user messages and every field
\* that either turn collected (no lost update).
C20_NoLostUpdate ==
    (/\ pc = "overlap"
     /\ \A i \in OverlapCalls : calls[i].pc = "done"
     /\ \E i \in OverlapCalls : calls[i].overlapped) =>
        LET stored == LoadState(db, SessionNames[1])
        IN \A i \in OverlapCalls :
              /\ \E k \in 1..Len(stored.messages) :
                    stored.messages[k] = HumanMessage(OverlapMessages[i])
              /\ \A f \in DOMAIN calls[i].state.collected_fields :
                    /\ f \in DOMAIN stored.collected_fields
                    /\ stored.collected_fields[f] = calls[i].state.collected_fields[f]

\* check_timeout_status has found the session timeout of a stored conversation
\* exceeded
SessionTimedOut ==
    /\ pc = "done"
    /\ call.op = "check_timeout_status"
    /\ call.conversation_id \in DOMAIN db
    /\ call.idle_tenths >= 10 * db0[call.conversation_id].session_timeout_minutes

\* C21: when check_timeout_status finds the session timeout exceeded, the
\* conversation becomes PAUSED with can_resume = session_saved = true if its
\* minimum data threshold was met, and TIMEOUT with both false otherwise, and a
\* 'timeout' event is recorded.
C21_SessionTimeout ==
    SessionTimedOut =>
        LET before == db0[call.conversation_id]
            after == db[call.conversation_id]
        IN /\ result.status = "timeout"
           /\ IF before.min_data_threshold_met
              THEN /\ after.status = "PAUSED"
                   /\ result.can_resume
                   /\ result.session_saved
              ELSE /\ after.status = "TIMEOUT"
                   /\ ~result.can_resume
                   /\ ~result.session_saved
           /\ after.timeout_events = before.timeout_events \o <<"timeout">>

\* C21 witness: a conversation whose minimum data threshold was met timed out
\* after 30 idle minutes and was paused
C21_Witness_PausedAtTimeout ==
    /\ SessionTimedOut
    /\ call.idle_tenths = 300
    /\ db0[call.conversation_id].session_timeout_minutes = 30
    /\ db0[call.conversation_id].min_data_threshold_met
    /\ db[call.conversation_id].status = "PAUSED"
    /\ result.session_saved

====
